---------------------------- MODULE Spec2Model ----------------------------
(***************************************************************************)
(* Waypoint generators of app.py: generate_grass_cutting_waypoints,        *)
(* generate_striping_waypoints and generate_pitch_marking_waypoints.       *)
(*                                                                         *)
(* Numbers.  The source computes in binary floating point.  Here every     *)
(* coordinate is an integer.  Boundaries are polygons with integer         *)
(* vertices whose edges are horizontal, vertical or at 45 degrees, and the *)
(* mower width is an integer, so that every sweep line meets every edge at *)
(* an integer abscissa and the sweep arithmetic is exact.  Irrational      *)
(* quantities (hypot, sqrt(2), cos, sin) are fixed-point values, rounded.  *)
(* All lengths are in centimetres.                                         *)
(*                                                                         *)
(* Angles.  Latitude is counted in steps of 1/R and longitude in steps of  *)
(* 1/(R*cos(lat0)), so that the two scale factors of latlon_to_xy and      *)
(* xy_to_latlon are 1: the conversions keep their translation by the       *)
(* origin and their exchange of the coordinates.                           *)
(***************************************************************************)
EXTENDS Integers, Sequences, FiniteSets, TLC

\* ------------------------------------------------------------------ bounds

\* Largest side, in metres, of a rectangular boundary.
MaxSide == 4

\* Largest mower width tried, in half metres (the smallest is -1: the widths
\* <= 0 are tried too).
MaxWidth == 4

\* Coordinates are centimetres: FP steps per metre.
FP == 10 * 10

\* Iteration cap of the sweep loops.  No loop run with a width > 0 reaches it
\* (CapNotReached); it stops the loops that a width <= 0 never leaves.
MaxIter == 12 * (MaxSide + 2) + 4

\* ----------------------------------------------------------------- helpers

Min2(a, b) == IF a <= b THEN a ELSE b
Max2(a, b) == IF a >= b THEN a ELSE b

SetMin(S) == CHOOSE m \in S : \A e \in S : m <= e
SetMax(S) == CHOOSE m \in S : \A e \in S : m >= e

\* The one element of a singleton.  The({F(v) : v \in {e}}) is F(e) with e
\* evaluated once, however often F uses it.
The(S) == CHOOSE v \in S : TRUE

\* The elements of a finite set of integers, increasing.
SortedSeq(S) ==
  The({[i \in 1..Cardinality(T) |->
          CHOOSE m \in T : Cardinality({e \in T : e < m}) = i - 1] : T \in {S}})

\* Rounded-to-nearest quotient, b > 0.
RoundDiv(a, b) == (2 * a + b) \div (2 * b)

\* Largest r with r*r <= n, for n < 40000 * 40000: its hundreds, then the rest.
Isqrt(n) ==
  LET h == CHOOSE c \in 0..399 : (100 * c) * (100 * c) <= n /\ n < (100 * c + 100) * (100 * c + 100)
  IN  CHOOSE r \in 100 * h..100 * h + 99 : r * r <= n /\ n < (r + 1) * (r + 1)

\* ------------------------------------------------- latitude and longitude

\* latlon_to_xy: x from the longitude, y from the latitude, both relative
\* to the origin.
latlon_to_xy(latlon, origin) ==
  << latlon[2] - origin[2], latlon[1] - origin[1] >>

\* xy_to_latlon: the latitude from y, the longitude from x.
xy_to_latlon(xy, origin) ==
  << xy[2] + origin[1], xy[1] + origin[2] >>

\* poly_xy = [latlon_to_xy(pt, origin) for pt in boundary_latlon], origin
\* being the boundary's first point.
PolyXY(b) == [i \in 1..Len(b) |-> latlon_to_xy(b[i], b[1])]

\* polygon.bounds
Bounds(poly) ==
  [minx |-> SetMin({poly[i][1] : i \in 1..Len(poly)}),
   miny |-> SetMin({poly[i][2] : i \in 1..Len(poly)}),
   maxx |-> SetMax({poly[i][1] : i \in 1..Len(poly)}),
   maxy |-> SetMax({poly[i][2] : i \in 1..Len(poly)})]

\* ------------------------------------------------- line /\ polygon (shapely)

\* The edges of the ring, the closing edge included.
Edges(poly) ==
  {<< poly[i], poly[(i % Len(poly)) + 1] >> : i \in 1..Len(poly)}

\* (px/2, py/2) lies on the edge e.
OnEdge2(px, py, e) ==
  LET x1 == 2 * e[1][1]  y1 == 2 * e[1][2]
      x2 == 2 * e[2][1]  y2 == 2 * e[2][2]
  IN  /\ (x2 - x1) * (py - y1) = (y2 - y1) * (px - x1)
      /\ Min2(x1, x2) <= px /\ px <= Max2(x1, x2)
      /\ Min2(y1, y2) <= py /\ py <= Max2(y1, y2)

\* The horizontal ray from (px/2, py/2) to the right crosses the edge e.
RayCrosses2(px, py, e) ==
  LET x1 == 2 * e[1][1]  y1 == 2 * e[1][2]
      x2 == 2 * e[2][1]  y2 == 2 * e[2][2]
  IN  /\ (y1 > py) # (y2 > py)
      /\ IF y2 > y1
           THEN (px - x1) * (y2 - y1) < (py - y1) * (x2 - x1)
           ELSE (px - x1) * (y2 - y1) > (py - y1) * (x2 - x1)

\* (px/2, py/2) belongs to the closed polygon.
Covers2(poly, px, py) ==
  \/ \E e \in Edges(poly) : OnEdge2(px, py, e)
  \/ Cardinality({e \in Edges(poly) : RayCrosses2(px, py, e)}) % 2 = 1

\* The abscissas at which the line y = c meets the edge e: both ends of a
\* horizontal edge lying on it, the crossing point of any other edge.
EdgeHits(e, c) ==
  LET lo == IF e[1][2] <= e[2][2] THEN e[1] ELSE e[2]
      hi == IF e[1][2] <= e[2][2] THEN e[2] ELSE e[1]
  IN  IF c < lo[2] \/ c > hi[2] THEN {}
      ELSE IF lo[2] = hi[2] THEN {lo[1], hi[1]}
      ELSE {lo[1] + ((c - lo[2]) * (hi[1] - lo[1])) \div (hi[2] - lo[2])}

\* The sorted abscissas of the segment from (a, c) to (b, c) at which
\* membership in the polygon may change.
Breaks(poly, c, a, b) ==
  SortedSeq({x \in UNION {EdgeHits(e, c) : e \in Edges(poly)} \cup {a, b} :
               a <= x /\ x <= b})

\* Whether the open interval (xs[j], xs[j+1]) is covered (never for j = 0 and
\* j = Len(xs)).
Covered(poly, c, xs) ==
  [j \in 0..Len(xs) |->
     IF j = 0 \/ j = Len(xs) THEN FALSE
     ELSE Covers2(poly, xs[j] + xs[j + 1], 2 * c)]

\* The components, as index pairs into xs: a maximal run of covered
\* intervals, or a covered abscissa between two intervals that are not.
Runs(poly, c, xs, in) ==
  {r \in (1..Len(xs)) \X (1..Len(xs)) :
     /\ r[1] <= r[2]
     /\ \A j \in r[1]..r[2] - 1 : in[j]
     /\ ~in[r[1] - 1] /\ ~in[r[2]]
     /\ r[1] = r[2] => Covers2(poly, 2 * xs[r[1]], 2 * c)}

\* The runs from left to right, each << lo, hi >>.
Components(xs, runs) ==
  [i \in 1..Cardinality(runs) |->
     LET r == CHOOSE q \in runs : Cardinality({o \in runs : o[1] < q[1]}) = i - 1
     IN  << xs[r[1]], xs[r[2]] >>]

\* The components of (segment from (a, c) to (b, c)) /\ polygon, a <= b, from
\* left to right: each << lo, hi >>, a point when lo = hi.
HClip(poly, c, a, b) ==
  The({The({The({Components(xs, runs) : runs \in {Runs(poly, c, xs, in)}})
            : in \in {Covered(poly, c, xs)}})
       : xs \in {Breaks(poly, c, a, b)}})

\* A geometry as shapely returns it from intersection(): its geom_type and
\* its parts, each part a coordinate sequence (two points for a segment, one
\* for a point).  Parts are kept in the order met along the line.
Geometry(parts) ==
  LET segs == Cardinality({i \in 1..Len(parts) : Len(parts[i]) = 2})
      pts  == Cardinality({i \in 1..Len(parts) : Len(parts[i]) = 1})
  IN  [geom_type |->
         IF Len(parts) = 0 THEN "Empty"
         ELSE IF pts = 0
           THEN (IF segs = 1 THEN "LineString" ELSE "MultiLineString")
         ELSE IF segs = 0
           THEN (IF pts = 1 THEN "Point" ELSE "MultiPoint")
         ELSE "GeometryCollection",
       geoms |-> parts]

is_empty(g) == g.geom_type = "Empty"

\* The parts of a clip on the line y = c.
HParts(cs, c) ==
  [i \in 1..Len(cs) |->
     IF cs[i][1] = cs[i][2] THEN << << cs[i][1], c >> >>
     ELSE << << cs[i][1], c >>, << cs[i][2], c >> >>]

\* The parts of a clip on the line x = c.
VParts(cs, c) ==
  [i \in 1..Len(cs) |->
     IF cs[i][1] = cs[i][2] THEN << << c, cs[i][1] >> >>
     ELSE << << c, cs[i][1] >>, << c, cs[i][2] >> >>]

\* LineString([(minx, y), (maxx, y)]).intersection(polygon)
HLineIntersection(poly, yy, minx, maxx) ==
  The({Geometry(HParts(cs, yy)) : cs \in {HClip(poly, yy, minx, maxx)}})

\* LineString([(x, miny), (x, maxy)]).intersection(polygon): the same clip
\* with the two coordinates exchanged.
Transpose(poly) == [i \in 1..Len(poly) |-> << poly[i][2], poly[i][1] >>]

VLineIntersection(poly, xx, miny, maxy) ==
  The({Geometry(VParts(cs, xx)) :
         cs \in {The({HClip(t, xx, miny, maxy) : t \in {Transpose(poly)}})}})

\* if clipped.geom_type == 'LineString': lines.append(clipped)
\* elif clipped.geom_type == 'MultiLineString': lines.extend(list(clipped))
\* Any other geom_type leaves the list as it is.
Collect(lines, clipped) ==
  IF clipped.geom_type = "LineString" THEN Append(lines, clipped.geoms[1])
  ELSE IF clipped.geom_type = "MultiLineString" THEN lines \o clipped.geoms
  ELSE lines

\* [[xy_to_latlon(pt, origin) for pt in line.coords] for line in lines]
ToLatLon(lines, origin) ==
  [i \in 1..Len(lines) |->
     [j \in 1..Len(lines[i]) |-> xy_to_latlon(lines[i][j], origin)]]

\* ------------------------------------ generate_grass_cutting_waypoints

\* The frame of a call: its position, its locals (polygon, its bounds, the
\* sweep coordinate, the lines collected), the iterations made, the value
\* returned.  Lines 38-44.
GrassCall(b, w) ==
  The({[pc |-> "loop", polygon |-> poly, bounds |-> Bounds(poly),
        y |-> Bounds(poly).miny, lines |-> << >>, n |-> 0, waypoints |-> << >>]
       : poly \in {PolyXY(b)}})

\* GrassStep with "y += mower_width" made only where a line is collected.
GrassStepStalls(b, w, f) ==
  IF f.y <= f.bounds.maxy
    THEN The({IF is_empty(clipped)
                THEN [f EXCEPT !.y = f.y + w, !.n = f.n + 1]
                ELSE IF clipped.geom_type \in {"LineString", "MultiLineString"}
                  THEN [f EXCEPT !.lines = Collect(f.lines, clipped),
                                 !.y = f.y + w, !.n = f.n + 1]
                  ELSE [f EXCEPT !.n = f.n + 1]
              : clipped \in {HLineIntersection(f.polygon, f.y, f.bounds.minx,
                                               f.bounds.maxx)}})
    ELSE [f EXCEPT !.pc = "done", !.waypoints = ToLatLon(f.lines, b[1])]

\* Lines 45-63: one iteration of "while y <= maxy", or the conversion and
\* the return once the loop is left.
GrassStep(b, w, f) ==
  IF f.y <= f.bounds.maxy
    THEN The({IF is_empty(clipped)
                THEN [f EXCEPT !.y = f.y + w, !.n = f.n + 1]
                ELSE [f EXCEPT !.lines = Collect(f.lines, clipped),
                               !.y = f.y + w, !.n = f.n + 1]
              : clipped \in {HLineIntersection(f.polygon, f.y, f.bounds.minx,
                                               f.bounds.maxx)}})
    ELSE [f EXCEPT !.pc = "done", !.waypoints = ToLatLon(f.lines, b[1])]

\* The value a call returns, for w > 0.
RECURSIVE GrassRun(_, _, _)
GrassRun(b, w, f) ==
  IF f.pc = "done" THEN f.waypoints ELSE GrassRun(b, w, GrassStep(b, w, f))

generate_grass_cutting_waypoints(b, w) == GrassRun(b, w, GrassCall(b, w))

\* ----------------------------------------- generate_striping_waypoints

\* math.sqrt(2), in thousandths.
Sqrt2Milli == 1414

\* math.hypot(maxx - minx, maxy - miny)
diag_length(bb) ==
  Isqrt((bb.maxx - bb.minx) * (bb.maxx - bb.minx)
        + (bb.maxy - bb.miny) * (bb.maxy - bb.miny))

\* mower_width / math.sqrt(2)
spacing(w) == RoundDiv(w * 1000, Sqrt2Milli)

\* LineString([p1, p2]).parallel_offset(d, 'right'): the segment moved by d
\* along its right-hand normal (dy, -dx) / length; nothing for a segment of
\* length 0.  The segment is moved, not lengthened.
parallel_offset_right(p1, p2, d) ==
  LET dx  == p2[1] - p1[1]
      dy  == p2[2] - p1[2]
      len == Isqrt(dx * dx + dy * dy)
  IN  IF len = 0 THEN << >>
      ELSE LET sx == RoundDiv(d * dy, len)
               sy == RoundDiv(-(d * dx), len)
           IN  << << p1[1] + sx, p1[2] + sy >>, << p2[1] + sx, p2[2] + sy >> >>

\* extended_line.intersection(polygon), for a segment on a line x + y = c:
\* the horizontal clip in the frame (x - y, x + y).
Rot45(poly) ==
  [i \in 1..Len(poly) |-> << poly[i][1] - poly[i][2], poly[i][1] + poly[i][2] >>]

UnRot45(X, Y) == << (X + Y) \div 2, (Y - X) \div 2 >>

DParts(cs, Y) ==
  [i \in 1..Len(cs) |->
     IF cs[i][1] = cs[i][2] THEN << UnRot45(cs[i][1], Y) >>
     ELSE << UnRot45(cs[i][1], Y), UnRot45(cs[i][2], Y) >>]

DiagIntersection(poly, seg) ==
  IF seg = << >> THEN Geometry(<< >>)
  ELSE The({Geometry(DParts(cs, seg[1][1] + seg[1][2])) :
              cs \in {The({HClip(r, seg[1][1] + seg[1][2],
                                 Min2(seg[1][1] - seg[1][2], seg[2][1] - seg[2][2]),
                                 Max2(seg[1][1] - seg[1][2], seg[2][1] - seg[2][2]))
                           : r \in {Rot45(poly)}})}})

\* The line the diagonal pattern clips for one offset.
extended_line(bb, off) ==
  parallel_offset_right(<< bb.minx, bb.miny + off >>,
                        << bb.minx + off, bb.miny >>,
                        diag_length(bb) * 2)

\* ------------------------------------------------------------------ inputs

\* The origin of the boundaries, (lat, lon).
Anchor == << 4369, 2784 >>

\* A boundary from its vertices in metres: the planar point (x, y) is the
\* position (lat, lon) = (y, x) from the anchor.
Boundary(m) == [i \in 1..Len(m) |-> xy_to_latlon(<< m[i][1] * FP, m[i][2] * FP >>, Anchor)]

\* The rectangle of width W and height H, counter-clockwise, from its lower
\* left corner or from its upper right one.
Rect(W, H, s) ==
  IF s = 1 THEN << << 0, 0 >>, << W, 0 >>, << W, H >>, << 0, H >> >>
  ELSE << << W, H >>, << 0, H >>, << 0, 0 >>, << W, 0 >> >>

Rectangles == {Boundary(Rect(W, H, s)) : W \in 1..MaxSide, H \in 1..MaxSide, s \in 1..2}

\* Boundaries that are not rectangles: a triangle, a diamond, an L, a U open
\* upwards, a C open to the right, and a block with a tower and a peak.
Shapes ==
  {Boundary(<< << 0, 0 >>, << 4, 0 >>, << 0, 4 >> >>),
   Boundary(<< << 2, 0 >>, << 4, 2 >>, << 2, 4 >>, << 0, 2 >> >>),
   Boundary(<< << 0, 0 >>, << 4, 0 >>, << 4, 2 >>, << 2, 2 >>, << 2, 4 >>, << 0, 4 >> >>),
   Boundary(<< << 0, 0 >>, << 6, 0 >>, << 6, 4 >>, << 4, 4 >>, << 4, 2 >>, << 2, 2 >>,
               << 2, 4 >>, << 0, 4 >> >>),
   Boundary(<< << 0, 0 >>, << 4, 0 >>, << 4, 2 >>, << 2, 2 >>, << 2, 4 >>, << 4, 4 >>,
               << 4, 6 >>, << 0, 6 >> >>),
   Boundary(<< << 0, 0 >>, << 6, 0 >>, << 6, 1 >>, << 5, 1 >>, << 4, 2 >>, << 3, 1 >>,
               << 2, 1 >>, << 2, 4 >>, << 0, 4 >> >>)}

Boundaries == Rectangles \cup Shapes

\* Mower widths: every half metre from -0.5 m to MaxWidth / 2 m.
Widths == {j * (FP \div 2) : j \in -1..MaxWidth}

\* The three patterns of the selectbox, and a name that is none of them.
Patterns ==
  {"Basic Stripe Pattern", "Checkerboard Stripe Pattern",
   "Diagonal Stripe Pattern", "Zigzag"}

\* ------------------------------------------------------------------- state

VARIABLES
  task,             \* the generator called: main's selectbox
  boundary_latlon,  \* its arguments
  mower_width,
  pattern,
  pc,               \* where the call stands: "call", a loop, "done"
  gc,               \* the frame of generate_grass_cutting_waypoints
  polygon, bounds,  \* the locals of the other two generators
  y, x,             \* generate_striping_waypoints: the sweep coordinates
  horizontal_lines,
  vertical_lines,
  offset, offsets,  \* the diagonal pattern's offsets
  k,                \* the index of a for loop
  diagonal_lines,
  n,                \* iterations of the current loop
  waypoints         \* the list being built; at "done", the value returned

vars ==
  << task, boundary_latlon, mower_width, pattern, pc, gc, polygon, bounds, y, x,
     horizontal_lines, vertical_lines, offset, offsets, k, diagonal_lines, n,
     waypoints >>

origin == boundary_latlon[1]

NoCall ==
  [pc |-> "idle", polygon |-> << >>, bounds |-> << >>, y |-> 0, lines |-> << >>,
   n |-> 0, waypoints |-> << >>]

Locals0 ==
  /\ pc = "call"
  /\ gc = NoCall
  /\ polygon = << >> /\ bounds = << >>
  /\ y = 0 /\ x = 0
  /\ horizontal_lines = << >> /\ vertical_lines = << >>
  /\ offset = 0 /\ offsets = << >> /\ k = 0
  /\ diagonal_lines = << >>
  /\ n = 0
  /\ waypoints = << >>

\* A call of one of the three generators, as main dispatches them (lines
\* 376-381), with its arguments drawn from the input sets.  The widths <= 0
\* are those main's number_input refuses and a direct caller may pass.
Init ==
  /\ boundary_latlon \in Boundaries
  /\ \/ task = "Grass Cutting" /\ mower_width \in Widths /\ pattern = "None"
     \/ task = "Striping" /\ mower_width \in Widths /\ pattern \in Patterns
     \/ task = "Pitch Marking" /\ mower_width = "None" /\ pattern = "None"
  /\ Locals0

Args == << task, boundary_latlon, mower_width, pattern >>

\* ------------------------------------ generate_grass_cutting_waypoints

\* Lines 38-44: the call, made by main or by generate_striping_waypoints.
EnterGrass ==
  /\ pc' = "gc"
  /\ gc' = GrassCall(boundary_latlon, mower_width)

CallGrass ==
  /\ pc = "call" /\ task = "Grass Cutting"
  /\ EnterGrass
  /\ UNCHANGED << Args, polygon, bounds, y, x, horizontal_lines, vertical_lines,
                  offset, offsets, k, diagonal_lines, n, waypoints >>

\* Lines 45-56: one iteration of the loop.
GrassLoop ==
  /\ pc = "gc" /\ gc.pc = "loop"
  /\ gc.y <= gc.bounds.maxy
  /\ gc.n < MaxIter
  /\ gc' = GrassStep(boundary_latlon, mower_width, gc)
  /\ UNCHANGED << Args, pc, polygon, bounds, y, x, horizontal_lines,
                  vertical_lines, offset, offsets, k, diagonal_lines, n,
                  waypoints >>

\* Lines 58-63: the loop is left, the lines are converted and returned (and
\* returned again by generate_striping_waypoints, lines 81 and 151).
GrassReturn ==
  /\ pc = "gc" /\ gc.pc = "loop"
  /\ gc.y > gc.bounds.maxy
  /\ gc' = GrassStep(boundary_latlon, mower_width, gc)
  /\ waypoints' = gc'.waypoints
  /\ pc' = "done"
  /\ UNCHANGED << Args, polygon, bounds, y, x, horizontal_lines, vertical_lines,
                  offset, offsets, k, diagonal_lines, n >>

\* ----------------------------------------- generate_striping_waypoints

\* Lines 73-86, 119-125 and 151: the locals, and the dispatch on the pattern.
CallStriping ==
  /\ pc = "call" /\ task = "Striping"
  /\ polygon' = PolyXY(boundary_latlon)
  /\ bounds' = Bounds(polygon')
  /\ UNCHANGED << Args, x, horizontal_lines, vertical_lines, k, diagonal_lines,
                  n, waypoints >>
  /\ IF pattern = "Basic Stripe Pattern"
       THEN EnterGrass /\ UNCHANGED << y, offset, offsets >>
     ELSE IF pattern = "Checkerboard Stripe Pattern"
       THEN /\ y' = bounds'.miny
            /\ pc' = "h_loop"
            /\ UNCHANGED << gc, offset, offsets >>
     ELSE IF pattern = "Diagonal Stripe Pattern"
       THEN /\ offset' = -diag_length(bounds')
            /\ offsets' = << >>
            /\ pc' = "offsets_loop"
            /\ UNCHANGED << gc, y >>
     ELSE EnterGrass /\ UNCHANGED << y, offset, offsets >>

\* HorizontalStep without its MultiLineString branch.
HorizontalStepNoMulti(poly, bb, w, yy, lines) ==
  The({IF clipped.geom_type = "LineString"
         THEN [y |-> yy + w, lines |-> Append(lines, clipped.geoms[1])]
         ELSE [y |-> yy + w, lines |-> lines]
       : clipped \in {HLineIntersection(poly, yy, bb.minx, bb.maxx)}})

\* Lines 87-97: one iteration of the horizontal loop.
HorizontalStep(poly, bb, w, yy, lines) ==
  The({IF is_empty(clipped)
         THEN [y |-> yy + w, lines |-> lines]
         ELSE [y |-> yy + w, lines |-> Collect(lines, clipped)]
       : clipped \in {HLineIntersection(poly, yy, bb.minx, bb.maxx)}})

HorizontalLoop ==
  /\ pc = "h_loop"
  /\ y <= bounds.maxy
  /\ n < MaxIter
  /\ \E r \in {HorizontalStep(polygon, bounds, mower_width, y, horizontal_lines)} :
       y' = r.y /\ horizontal_lines' = r.lines
  /\ n' = n + 1
  /\ UNCHANGED << Args, pc, gc, polygon, bounds, x, vertical_lines, offset,
                  offsets, k, diagonal_lines, waypoints >>

\* Lines 100-101: the horizontal loop is left, the vertical one begins.
HorizontalDone ==
  /\ pc = "h_loop"
  /\ y > bounds.maxy
  /\ x' = bounds.minx
  /\ vertical_lines' = << >>
  /\ n' = 0
  /\ pc' = "v_loop"
  /\ UNCHANGED << Args, gc, polygon, bounds, y, horizontal_lines, offset,
                  offsets, k, diagonal_lines, waypoints >>

\* Lines 102-112: one iteration of the vertical loop.
VerticalStep(poly, bb, w, xx, lines) ==
  The({IF is_empty(clipped)
         THEN [x |-> xx + w, lines |-> lines]
         ELSE [x |-> xx + w, lines |-> Collect(lines, clipped)]
       : clipped \in {VLineIntersection(poly, xx, bb.miny, bb.maxy)}})

VerticalLoop ==
  /\ pc = "v_loop"
  /\ x <= bounds.maxx
  /\ n < MaxIter
  /\ \E r \in {VerticalStep(polygon, bounds, mower_width, x, vertical_lines)} :
       x' = r.x /\ vertical_lines' = r.lines
  /\ n' = n + 1
  /\ UNCHANGED << Args, pc, gc, polygon, bounds, y, horizontal_lines, offset,
                  offsets, k, diagonal_lines, waypoints >>

\* Lines 114-117: both lists are converted and returned.
CheckerboardReturn ==
  /\ pc = "v_loop"
  /\ x > bounds.maxx
  /\ waypoints' = ToLatLon(horizontal_lines \o vertical_lines, origin)
  /\ pc' = "done"
  /\ UNCHANGED << Args, gc, polygon, bounds, y, x, horizontal_lines,
                  vertical_lines, offset, offsets, k, diagonal_lines, n >>

\* Lines 126-128: one more offset.
OffsetsLoop ==
  /\ pc = "offsets_loop"
  /\ offset <= diag_length(bounds)
  /\ n < MaxIter
  /\ offsets' = Append(offsets, offset)
  /\ offset' = offset + spacing(mower_width)
  /\ n' = n + 1
  /\ UNCHANGED << Args, pc, gc, polygon, bounds, y, x, horizontal_lines,
                  vertical_lines, k, diagonal_lines, waypoints >>

\* Lines 130-131: the offsets are all there, the lines are clipped next.
OffsetsDone ==
  /\ pc = "offsets_loop"
  /\ offset > diag_length(bounds)
  /\ diagonal_lines' = << >>
  /\ k' = 1
  /\ pc' = "diag_loop"
  /\ UNCHANGED << Args, gc, polygon, bounds, y, x, horizontal_lines,
                  vertical_lines, offset, offsets, n, waypoints >>

\* Lines 131-144: one offset's line, moved and clipped.
DiagonalStep(poly, bb, off, lines) ==
  The({IF is_empty(clipped) THEN lines ELSE Collect(lines, clipped)
       : clipped \in {The({DiagIntersection(poly, seg)
                           : seg \in {extended_line(bb, off)}})}})

DiagonalLoop ==
  /\ pc = "diag_loop"
  /\ k <= Len(offsets)
  /\ diagonal_lines' = DiagonalStep(polygon, bounds, offsets[k], diagonal_lines)
  /\ k' = k + 1
  /\ UNCHANGED << Args, pc, gc, polygon, bounds, y, x, horizontal_lines,
                  vertical_lines, offset, offsets, n, waypoints >>

\* Lines 145-148: the lines are converted and returned.
DiagonalReturn ==
  /\ pc = "diag_loop"
  /\ k > Len(offsets)
  /\ waypoints' = ToLatLon(diagonal_lines, origin)
  /\ pc' = "done"
  /\ UNCHANGED << Args, gc, polygon, bounds, y, x, horizontal_lines,
                  vertical_lines, offset, offsets, k, diagonal_lines, n >>

\* ------------------------------------ generate_pitch_marking_waypoints

\* math.sin of k/2 degrees, k = 0..180, in millionths (SinTable[k + 1]).
TrigScale == 10 * 10 * 10 * 10 * 10 * 10

SinTable ==
  <<
     0, 8727, 17452, 26177, 34899, 43619, 52336, 61049, 69756, 78459,
     87156, 95846, 104528, 113203, 121869, 130526, 139173, 147809, 156434, 165048,
     173648, 182236, 190809, 199368, 207912, 216440, 224951, 233445, 241922, 250380,
     258819, 267238, 275637, 284015, 292372, 300706, 309017, 317305, 325568, 333807,
     342020, 350207, 358368, 366501, 374607, 382683, 390731, 398749, 406737, 414693,
     422618, 430511, 438371, 446198, 453990, 461749, 469472, 477159, 484810, 492424,
     500000, 507538, 515038, 522499, 529919, 537300, 544639, 551937, 559193, 566406,
     573576, 580703, 587785, 594823, 601815, 608761, 615661, 622515, 629320, 636078,
     642788, 649448, 656059, 662620, 669131, 675590, 681998, 688355, 694658, 700909,
     707107, 713250, 719340, 725374, 731354, 737277, 743145, 748956, 754710, 760406,
     766044, 771625, 777146, 782608, 788011, 793353, 798636, 803857, 809017, 814116,
     819152, 824126, 829038, 833886, 838671, 843391, 848048, 852640, 857167, 861629,
     866025, 870356, 874620, 878817, 882948, 887011, 891007, 894934, 898794, 902585,
     906308, 909961, 913545, 917060, 920505, 923880, 927184, 930418, 933580, 936672,
     939693, 942641, 945519, 948324, 951057, 953717, 956305, 958820, 961262, 963630,
     965926, 968148, 970296, 972370, 974370, 976296, 978148, 979925, 981627, 983255,
     984808, 986286, 987688, 989016, 990268, 991445, 992546, 993572, 994522, 995396,
     996195, 996917, 997564, 998135, 998630, 999048, 999391, 999657, 999848, 999962,
     1000000
  >>

\* math.sin(math.radians(a)) and math.cos(math.radians(a)), a given in half
\* degrees, in millionths.
RECURSIVE sin2(_)
sin2(a2) ==
  LET a == a2 % 720
  IN  IF a <= 180 THEN SinTable[a + 1]
      ELSE IF a <= 360 THEN SinTable[360 - a + 1]
      ELSE -sin2(a - 360)

cos2(a2) == sin2(a2 + 180)

\* Standard FIFA pitch dimensions, in centimetres.
lp == 10500
wp == 6800
radius == 915
penalty_length == 4032
penalty_width == 1650
penalty_spot_dist == 1100
goal_length == 1832
goal_width == 550
corner_radius == 100
steps == 20

center_x == (bounds.minx + bounds.maxx) \div 2
center_y == (bounds.miny + bounds.maxy) \div 2
field_minx == center_x - lp \div 2
field_maxx == center_x + lp \div 2
field_miny == center_y - wp \div 2
field_maxy == center_y + wp \div 2

\* [xy_to_latlon(pt, origin) for pt in pts]
PathLatLon(pts) == [i \in 1..Len(pts) |-> xy_to_latlon(pts[i], origin)]

outer ==
  << << field_minx, field_miny >>, << field_maxx, field_miny >>,
     << field_maxx, field_maxy >>, << field_minx, field_maxy >>,
     << field_minx, field_miny >> >>

center_line == << << center_x, field_miny >>, << center_x, field_maxy >> >>

\* for angle_deg in range(0, 361, 5)
center_circle ==
  [i \in 1..73 |->
     << center_x + RoundDiv(radius * cos2(2 * 5 * (i - 1)), TrigScale),
        center_y + RoundDiv(radius * sin2(2 * 5 * (i - 1)), TrigScale) >>]

left_penalty ==
  << << field_minx, center_y - penalty_width \div 2 >>,
     << field_minx + penalty_length, center_y - penalty_width \div 2 >>,
     << field_minx + penalty_length, center_y + penalty_width \div 2 >>,
     << field_minx, center_y + penalty_width \div 2 >>,
     << field_minx, center_y - penalty_width \div 2 >> >>

right_penalty ==
  << << field_maxx, center_y - penalty_width \div 2 >>,
     << field_maxx - penalty_length, center_y - penalty_width \div 2 >>,
     << field_maxx - penalty_length, center_y + penalty_width \div 2 >>,
     << field_maxx, center_y + penalty_width \div 2 >>,
     << field_maxx, center_y - penalty_width \div 2 >> >>

left_penalty_spot == << field_minx + penalty_spot_dist, center_y >>
right_penalty_spot == << field_maxx - penalty_spot_dist, center_y >>

\* generate_arc: steps + 1 points from start_angle to end_angle (degrees),
\* every one of them kept.
generate_arc(center, r, start_angle, end_angle) ==
  [j \in 1..steps + 1 |->
     LET angle2 == 2 * start_angle
                   + (2 * (end_angle - start_angle) * (j - 1)) \div steps
     IN  << center[1] + RoundDiv(r * cos2(angle2), TrigScale),
            center[2] + RoundDiv(r * sin2(angle2), TrigScale) >>]

left_arc == generate_arc(left_penalty_spot, radius, 310, 50)
right_arc == generate_arc(right_penalty_spot, radius, 130, 230)

left_goal ==
  << << field_minx, center_y - goal_width \div 2 >>,
     << field_minx + goal_length, center_y - goal_width \div 2 >>,
     << field_minx + goal_length, center_y + goal_width \div 2 >>,
     << field_minx, center_y + goal_width \div 2 >>,
     << field_minx, center_y - goal_width \div 2 >> >>

right_goal ==
  << << field_maxx, center_y - goal_width \div 2 >>,
     << field_maxx - goal_length, center_y - goal_width \div 2 >>,
     << field_maxx - goal_length, center_y + goal_width \div 2 >>,
     << field_maxx, center_y + goal_width \div 2 >>,
     << field_maxx, center_y - goal_width \div 2 >> >>

corners ==
  << << field_minx, field_miny >>, << field_minx, field_maxy >>,
     << field_maxx, field_miny >>, << field_maxx, field_maxy >> >>

corner_angles == << << 270, 360 >>, << 0, 90 >>, << 180, 270 >>, << 90, 180 >> >>

\* The markings in the order of their waypoints.append, the four corner
\* arcs apart.
Markings ==
  << outer, center_line, center_circle, left_penalty, right_penalty,
     left_arc, right_arc, left_goal, right_goal >>

\* Lines 166-187: the locals.
CallPitch ==
  /\ pc = "call" /\ task = "Pitch Marking"
  /\ polygon' = PolyXY(boundary_latlon)
  /\ bounds' = Bounds(polygon')
  /\ waypoints' = << >>
  /\ pc' = "markings"
  /\ UNCHANGED << Args, gc, y, x, horizontal_lines, vertical_lines, offset,
                  offsets, k, diagonal_lines, n >>

\* Lines 189-281: the next marking is appended.
PitchMarking ==
  /\ pc = "markings"
  /\ Len(waypoints) < Len(Markings)
  /\ waypoints' = Append(waypoints, PathLatLon(Markings[Len(waypoints) + 1]))
  /\ UNCHANGED << Args, pc, gc, polygon, bounds, y, x, horizontal_lines,
                  vertical_lines, offset, offsets, k, diagonal_lines, n >>

\* Lines 283-298: the corners and their angles.
PitchCorners ==
  /\ pc = "markings"
  /\ Len(waypoints) = Len(Markings)
  /\ k' = 1
  /\ pc' = "corner_arcs"
  /\ UNCHANGED << Args, gc, polygon, bounds, y, x, horizontal_lines,
                  vertical_lines, offset, offsets, diagonal_lines, n, waypoints >>

\* Lines 300-302: one corner's arc.
PitchCornerArc ==
  /\ pc = "corner_arcs"
  /\ k <= Len(corners)
  /\ waypoints' =
       Append(waypoints,
              PathLatLon(generate_arc(corners[k], corner_radius,
                                      corner_angles[k][1], corner_angles[k][2])))
  /\ k' = k + 1
  /\ UNCHANGED << Args, pc, gc, polygon, bounds, y, x, horizontal_lines,
                  vertical_lines, offset, offsets, diagonal_lines, n >>

\* Line 304.
PitchReturn ==
  /\ pc = "corner_arcs"
  /\ k > Len(corners)
  /\ pc' = "done"
  /\ UNCHANGED << Args, gc, polygon, bounds, y, x, horizontal_lines,
                  vertical_lines, offset, offsets, k, diagonal_lines, n,
                  waypoints >>

Next ==
  \/ CallGrass \/ GrassLoop \/ GrassReturn
  \/ CallStriping
  \/ HorizontalLoop \/ HorizontalDone \/ VerticalLoop \/ CheckerboardReturn
  \/ OffsetsLoop \/ OffsetsDone \/ DiagonalLoop \/ DiagonalReturn
  \/ CallPitch \/ PitchMarking \/ PitchCorners \/ PitchCornerArc \/ PitchReturn

Spec == Init /\ [][Next]_vars

\* The program never stops on its own before "done": whatever step is
\* enabled is eventually taken.
FairSpec == Spec /\ WF_vars(Next)

\* ------------------------------------------------------------------ claims

\* A returned path, back in the planar frame.
ArgPolygon == PolyXY(boundary_latlon)
ArgBounds == Bounds(ArgPolygon)

XY(path) == [j \in 1..Len(path) |-> latlon_to_xy(path[j], origin)]
Tracks == [i \in 1..Len(waypoints) |-> XY(waypoints[i])]

Sweeping == task \in {"Grass Cutting", "Striping"}

IsRectangle(poly) ==
  LET bb == Bounds(poly)
  IN  /\ Len(poly) = 4
      /\ {poly[i] : i \in 1..4} =
           {<< bb.minx, bb.miny >>, << bb.maxx, bb.miny >>,
            << bb.maxx, bb.maxy >>, << bb.minx, bb.maxy >>}

\* No loop run with a width > 0 is stopped by the iteration cap.
CapNotReached ==
  (Sweeping /\ mower_width > 0) => (gc.n < MaxIter /\ n < MaxIter)

\* C1: on a rectangular boundary the tracks returned by
\* generate_grass_cutting_waypoints are exactly the full-width segments on the
\* lines y = miny + s/2 + k*s (k = 0, 1, ...) that are <= maxy, in that order;
\* in particular the first track is half a spacing inside the boundary.
\* (Ordinates are doubled so that s/2 is an integer.)
C1_HalfSpacingTracks ==
  (task = "Grass Cutting" /\ pc = "done" /\ IsRectangle(ArgPolygon)) =>
    LET s  == mower_width
        ks == {kk \in 0..MaxIter : 2 * ArgBounds.miny + s + 2 * kk * s <= 2 * ArgBounds.maxy}
    IN  /\ Len(Tracks) = Cardinality(ks)
        /\ \A i \in 1..Len(Tracks) :
             /\ Tracks[i][1][1] = ArgBounds.minx
             /\ Tracks[i][2][1] = ArgBounds.maxx
             /\ 2 * Tracks[i][1][2] = 2 * ArgBounds.miny + s + 2 * (i - 1) * s
             /\ Tracks[i][2][2] = Tracks[i][1][2]

\* C2: a sweep called with a width <= 0 is rejected (InvalidSpacing) before
\* anything else happens: it never enters a loop and never returns a list.
C2_InvalidSpacingRejected ==
  (Sweeping /\ mower_width <= 0) => pc \in {"call", "InvalidSpacing"}

\* C3: the left penalty area is, from the pitch corner (field_minx,
\* field_miny), the rectangle (0, 13.85), (16.5, 13.85), (16.5, 54.15),
\* (0, 54.15), in metres.
C3_LeftPenaltyArea ==
  (task = "Pitch Marking" /\ pc = "done") =>
    LET r == Tracks[4]
    IN  [i \in 1..4 |-> << r[i][1] - field_minx, r[i][2] - field_miny >>] =
          << << 0, 1385 >>, << 1650, 1385 >>, << 1650, 5415 >>, << 0, 5415 >> >>

\* C4: every point of the left penalty arc is strictly beyond the inner edge
\* of the left penalty area, and every point of the right penalty arc strictly
\* before the inner edge of the right one.
C4_PenaltyArcsOutsideArea ==
  (task = "Pitch Marking" /\ pc = "done") =>
    /\ \A j \in 1..Len(Tracks[6]) : Tracks[6][j][1] > Tracks[4][2][1]
    /\ \A j \in 1..Len(Tracks[7]) : Tracks[7][j][1] < Tracks[5][2][1]

\* C5: the generator returns 15 geometries, two of them the penalty spots,
\* single points 11 m from each goal line on the pitch's long axis.
C5_CompleteMarkingSet ==
  (task = "Pitch Marking" /\ pc = "done") =>
    /\ Len(Tracks) = 15
    /\ \E i \in 1..Len(Tracks) : Tracks[i] = << << field_minx + 1100, center_y >> >>
    /\ \E i \in 1..Len(Tracks) : Tracks[i] = << << field_maxx - 1100, center_y >> >>

\* The positive-length segments of the polygon on the candidate lines from
\* yy upwards, line after line, from left to right on each line.
RECURSIVE SegmentsFrom(_)
SegmentsFrom(yy) ==
  IF yy > ArgBounds.maxy THEN << >>
  ELSE LET cs   == HClip(ArgPolygon, yy, ArgBounds.minx, ArgBounds.maxx)
           segs == SelectSeq(cs, LAMBDA c : c[1] < c[2])
       IN  [i \in 1..Len(segs) |-> << << segs[i][1], yy >>, << segs[i][2], yy >> >>]
           \o SegmentsFrom(yy + mower_width)

\* C6: generate_grass_cutting_waypoints returns every positive-length segment
\* in which a candidate line meets the polygon, each as a path of its own,
\* from left to right on each line.
C6_EverySegmentEmitted ==
  (task = "Grass Cutting" /\ pc = "done") => Tracks = SegmentsFrom(ArgBounds.miny)

\* C7: the diagonal pattern returns at least one track, and every track it
\* returns lies in the polygon.
C7_DiagonalCovers ==
  (task = "Striping" /\ pattern = "Diagonal Stripe Pattern" /\ pc = "done") =>
    /\ Len(Tracks) >= 1
    /\ \A i \in 1..Len(Tracks) : \A j \in 1..Len(Tracks[i]) :
         Covers2(ArgPolygon, 2 * Tracks[i][j][1], 2 * Tracks[i][j][2])

\* A vertical track on one of the lines x = minx + k*width.
OnVerticalLine(t) ==
  /\ Len(t) = 2
  /\ t[1][1] = t[2][1]
  /\ t[1][2] < t[2][2]
  /\ \E kk \in 0..MaxIter : t[1][1] = ArgBounds.minx + kk * mower_width

\* C8: the checkerboard pattern returns the tracks of
\* generate_grass_cutting_waypoints on the same arguments, in the same order,
\* followed by vertical tracks on the lines x = minx + k*width, in the order
\* of the lines; the basic pattern and an unknown pattern return the tracks of
\* generate_grass_cutting_waypoints.
C8_StripingComposition ==
  (task = "Striping" /\ pc = "done" /\ pattern # "Diagonal Stripe Pattern") =>
    LET g == generate_grass_cutting_waypoints(boundary_latlon, mower_width)
    IN  IF pattern = "Checkerboard Stripe Pattern"
          THEN /\ Len(waypoints) >= Len(g)
               /\ SubSeq(waypoints, 1, Len(g)) = g
               /\ \A i \in Len(g) + 1..Len(waypoints) : OnVerticalLine(Tracks[i])
               /\ \A i \in Len(g) + 1..Len(waypoints) - 1 :
                    Tracks[i][1][1] <= Tracks[i + 1][1][1]
          ELSE waypoints = g

\* C8 witness: a checkerboard returned with horizontal and vertical tracks, a
\* horizontal line of the sweep having met the polygon in two segments.
C8_Witness ==
  /\ task = "Striping" /\ pattern = "Checkerboard Stripe Pattern" /\ pc = "done"
  /\ Len(vertical_lines) > 0
  /\ \E i \in 1..Len(horizontal_lines) - 1 :
       horizontal_lines[i][1][2] = horizontal_lines[i + 1][1][2]

HorizontalSweep ==
  \/ task = "Grass Cutting"
  \/ task = "Striping" /\ pattern # "Diagonal Stripe Pattern"

C10_CornerArcsInsidePitch ==
  (task = "Pitch Marking" /\ pc = "done") =>
    \A i \in 10..13 : \A j \in 1..Len(Tracks[i]) :
      /\ field_minx <= Tracks[i][j][1] /\ Tracks[i][j][1] <= field_maxx
      /\ field_miny <= Tracks[i][j][2] /\ Tracks[i][j][2] <= field_maxy

=============================================================================
